---- MODULE Spec2Model ----
(***************************************************************************)
(* Model of step3_step4/step3_table3_run.py: the two Domain Sample Sources *)
(* (GTA5, CityScapes), their __getitem__ pipelines, and main() with the    *)
(* adversarial training loop it starts.                                    *)
(***************************************************************************)
EXTENDS Integers, Sequences, FiniteSets, TLC

\* ------------------------------------------------------------------ bounds
\* Longest manifest (number of lines of train.txt / val.txt) enumerated.
MaxFiles == 2
\* Largest side of the square crop_size enumerated.
MaxCrop == 2

\* Largest max_iters enumerated.
MaxIters == 2
\* Largest evaluation and checkpoint cadence enumerated.
MaxFreq == 2

\* --------------------------------------------------------------- constants
\* ignore_index=255, the default of both constructors.
IgnoreIndex == 255
\* convert('RGB') yields three channels.
NumChannels == 3

\* ------------------------------------------------------- arrays and images
\* An image or a label map is a sequence of rows; a pixel of an image is the
\* sequence of its channel values, a pixel of a label map is a raw id.
Height(m) == Len(m)
Width(m) == IF Len(m) = 0 THEN 0 ELSE Len(m[1])

ReverseSeq(s) == [i \in 1..Len(s) |-> s[Len(s) + 1 - i]]

\* PIL Image.convert('RGB'): a single-channel pixel is replicated, an alpha
\* channel is dropped.
ConvertRGB(m) ==
    [r \in 1..Height(m) |-> [c \in 1..Width(m) |->
        IF Len(m[r][c]) = 1 THEN <<m[r][c][1], m[r][c][1], m[r][c][1]>>
        ELSE SubSeq(m[r][c], 1, NumChannels)]]

\* t.HorizontalFlip: Image.transpose(FLIP_LEFT_RIGHT).
FlipLeftRight(m) ==
    [r \in 1..Height(m) |-> ReverseSeq(m[r])]

\* Nearest-neighbour source index (1-based) of output index i when a side of
\* n pixels is resized to n2 pixels.
NearestIdx(i, n, n2) == (((2 * (i - 1) + 1) * n) \div (2 * n2)) + 1

\* PIL Image.resize((w2, h2)).
Resize(m, h2, w2) ==
    [r \in 1..h2 |-> [c \in 1..w2 |->
        m[NearestIdx(r, Height(m), h2)][NearestIdx(c, Width(m), w2)]]]

\* int(side * scale) for the scale num/den.
ScaledSide(n, scale) == (n * scale[1]) \div scale[2]

\* torchvision pad(img, [left, top, right, bottom], fill).
Pad(m, left, top, right, bottom, fill) ==
    [r \in 1..(Height(m) + top + bottom) |->
        [c \in 1..(Width(m) + left + right) |->
            IF (r - top) \in 1..Height(m) /\ (c - left) \in 1..Width(m)
            THEN m[r - top][c - left]
            ELSE fill]]

\* int(round(d / 2.0)) for d >= 0: Python rounds a half to the even integer.
RoundHalf(d) ==
    IF d % 2 = 0 THEN d \div 2
    ELSE IF (d \div 2) % 2 = 0 THEN d \div 2 ELSE (d \div 2) + 1

\* torchvision crop(img, top, left, height, width).
Crop(m, top, left, ch, cw) ==
    [r \in 1..ch |-> [c \in 1..cw |-> m[top + r][left + c]]]

\* torchvision.transforms.CenterCrop(size)(img): an undersized side is padded
\* with fill first, then the centre window is cut.
CenterCrop(m, size, fill) ==
    LET ch == size[1]
        cw == size[2]
        h  == Height(m)
        w  == Width(m)
        padded == IF cw > w \/ ch > h
                  THEN Pad(m,
                           IF cw > w THEN (cw - w) \div 2 ELSE 0,
                           IF ch > h THEN (ch - h) \div 2 ELSE 0,
                           IF cw > w THEN (cw - w + 1) \div 2 ELSE 0,
                           IF ch > h THEN (ch - h + 1) \div 2 ELSE 0,
                           fill)
                  ELSE m
        h2 == Height(padded)
        w2 == Width(padded)
    IN  IF cw = w2 /\ ch = h2 THEN padded
        ELSE Crop(padded, RoundHalf(h2 - ch), RoundHalf(w2 - cw), ch, cw)

\* image[:, :, ::-1]
ReverseChannels(img) ==
    [r \in 1..Height(img) |-> [c \in 1..Width(img) |-> ReverseSeq(img[r][c])]]

\* image.transpose((2, 0, 1)): [H][W][C] to [C][H][W].
Transpose201(img) ==
    [k \in 1..NumChannels |-> [r \in 1..Height(img) |->
        [c \in 1..Width(img) |-> img[r][c][k]]]]

\* image.shape of an [H][W][C] array.
Shape(img) == <<Height(img), Width(img), NumChannels>>

\* ------------------------------------------------------------------ inputs
\* The files on disk, by path: a path that is not in the domain is a missing
\* file.  Picture(k, h, w, ch) is an h x w image of ch channels whose pixel
\* values tell the entry k, the row and the column apart.  Entry 00002 of GTA5
\* has a label map one row taller than its image; a CityScapes labelIds file
\* has the size of its image.  The third entry of each root lacks its label
\* file, the fourth its image file.
Picture(k, h, w, ch) ==
    [r \in 1..h |-> [c \in 1..w |->
        [n \in 1..ch |-> 20 * k + 4 * r + c + 80 * (n - 1)]]]

Disk ==
    ( "gta/images/00001.png" :> Picture(1, 2, 2, 3) ) @@
    ( "gta/labels/00001.png" :> << <<7, 8>>, <<11, 9>> >> ) @@
    ( "gta/images/00002.png" :> Picture(2, 2, 4, 1) ) @@
    ( "gta/labels/00002.png" :>
        << <<0, 7, 1, 255>>, <<8, 11, 34, 9>>, <<7, 7, 8, 8>> >> ) @@
    ( "gta/images/00003.png" :> Picture(3, 2, 2, 3) ) @@
    ( "gta/labels/00004.png" :> << <<7, 7>>, <<8, 8>> >> ) @@
    ( "city/images/aachen_000000_000019_leftImg8bit.png" :> Picture(1, 2, 2, 3) ) @@
    ( "city/labels/aachen_000000_000019_gtFine_labelIds.png" :> << <<7, 8>>, <<11, 9>> >> ) @@
    ( "city/images/bochum_000000_000313_leftImg8bit.png" :> Picture(2, 2, 4, 1) ) @@
    ( "city/labels/bochum_000000_000313_gtFine_labelIds.png" :> << <<0, 7, 1, 255>>, <<8, 11, 34, 9>> >> ) @@
    ( "city/images/bremen_000000_000019_leftImg8bit.png" :> Picture(3, 2, 2, 3) ) @@
    ( "city/labels/ulm_000000_000019_gtFine_labelIds.png" :> << <<7, 7>>, <<8, 8>> >> )

\* The lines of a manifest, each already cut at the separators the
\* constructors split on: a GTA5 line "<stem>.<ext>" at '.', a CityScapes line
\* "<city>/<city>_<seq>_<frame>_leftImg8bit.png" at '/' and '_'.
GTA5Lines ==
    << [stem |-> "00001", ext |-> "png"], [stem |-> "00002", ext |-> "png"],
       [stem |-> "00003", ext |-> "png"], [stem |-> "00004", ext |-> "png"] >>

CityLines ==
    << [city |-> "aachen", seq |-> "000000", frame |-> "000019"],
       [city |-> "bochum", seq |-> "000000", frame |-> "000313"],
       [city |-> "bremen", seq |-> "000000", frame |-> "000019"],
       [city |-> "ulm", seq |-> "000000", frame |-> "000019"] >>

\* The manifests enumerated: the runs of at most MaxFiles consecutive lines,
\* the empty manifest among them.
Manifests(lines) ==
    { SubSeq(lines, p[1], p[1] + p[2] - 1) :
        p \in { q \in (1..Len(lines)) \X (0..MaxFiles) :
                  q[1] + q[2] - 1 <= Len(lines) } }

\* The manifest files under a root: train.txt holds the lines m, val.txt the
\* same lines in the opposite order.
RootListing(m) == [train |-> m, val |-> ReverseSeq(m)]

\* info['label2train'] of the two metadata files enumerated: raw id to
\* training id.  The second also maps raw id 0, which is a training id too.
Label2Train ==
    { (7 :> 0) @@ (8 :> 1) @@ (11 :> 2),
      (0 :> IgnoreIndex) @@ (7 :> 0) @@ (8 :> 1) @@ (11 :> 2) }

\* args.mean, one value per channel.
Means == { <<104, 117, 123>> }

\* crop_size: the square target sizes (height, width) enumerated.
CropSizes == { <<c, c>> : c \in 1..MaxCrop }

\* transform: absent, or the t.Compose of main().
Transforms == { "None", "Compose" }

\* The scales of t.RandomScale((0.5, 0.75, 1, 1.5)), as numerator, denominator.
Scales == { <<1, 2>>, <<3, 4>>, <<1, 1>>, <<3, 2>> }

\* One augmentation draw: whether HorizontalFlip flips, and RandomScale's scale.
Draws == [flip : BOOLEAN, scale : Scales]

NoDraw == [flip |-> FALSE, scale |-> <<1, 1>>]

\* args.ssl: unset (None) or set.
SslValues == { "None", "ssl" }

\* The indices __getitem__ is called with.
Indices == (0 - (MaxFiles + 1))..(MaxFiles + 1)

Workers == { "w1", "w2" }

\* ------------------------------------------------- external collaborators
\* dataset.utils.encode_segmap(mask, mapping, ignore_index): every pixel is
\* looked up on its own; a raw id the mapping has no entry for becomes
\* ignore_index.
encode_segmap(mask, mapping, ignore_index) ==
    [r \in 1..Height(mask) |-> [c \in 1..Width(mask) |->
        IF mask[r][c] \in DOMAIN mapping THEN mapping[mask[r][c]]
        ELSE ignore_index]]

\* utils.transform.HorizontalFlip()(image, label) when the draw says flip.
HorizontalFlip(image, label, flip) ==
    IF flip THEN <<FlipLeftRight(image), FlipLeftRight(label)>>
    ELSE <<image, label>>

\* utils.transform.RandomScale(scales)(image, label) for the drawn scale: both
\* are resized to the image's scaled size.
RandomScale(image, label, scale) ==
    LET h2 == ScaledSide(Height(image), scale)
        w2 == ScaledSide(Width(image), scale)
    IN  <<Resize(image, h2, w2), Resize(label, h2, w2)>>

\* transform = t.Compose([t.HorizontalFlip(), t.RandomScale(...)]): the two in
\* turn, on the pair.
Compose(image, label, draw) ==
    LET f == HorizontalFlip(image, label, draw.flip)
    IN  RandomScale(f[1], f[2], draw.scale)

\* PIL Image.open(path): the file's content, or FileNotFoundError.
ImageOpen(path) ==
    IF path \in DOMAIN Disk
    THEN [ok |-> TRUE, data |-> Disk[path]]
    ELSE [ok |-> FALSE, data |-> <<>>]

\* OpenPair with a slip: a missing label file is replaced by a blank label of
\* the image's size instead of failing.
OpenPairBlankLabel(file) ==
    LET image == ImageOpen(file.image)
        label == ImageOpen(file.label)
        rgb == ConvertRGB(image.data)
    IN  IF ~image.ok THEN [ok |-> FALSE, image |-> <<>>, label |-> <<>>]
        ELSE [ ok |-> TRUE, image |-> rgb,
               label |-> IF label.ok THEN label.data
                         ELSE [r \in 1..Height(rgb) |-> [c \in 1..Width(rgb) |-> 0]] ]

\* image = Image.open(file['image']).convert('RGB');
\* label = Image.open(file['label']): either failure fails the pair.
OpenPair(file) ==
    LET image == ImageOpen(file.image)
        label == ImageOpen(file.label)
    IN  IF image.ok /\ label.ok
        THEN [ok |-> TRUE, image |-> ConvertRGB(image.data), label |-> label.data]
        ELSE [ok |-> FALSE, image |-> <<>>, label |-> <<>>]

\* seq[index] of a Python list: the 1-based position of the element, or 0 for
\* IndexError.  An index in -len..-1 counts from the end.
ListIndex(seq, index) ==
    IF 0 <= index /\ index < Len(seq) THEN index + 1
    ELSE IF 0 - Len(seq) <= index /\ index < 0 THEN Len(seq) + index + 1
    ELSE 0

\* Python truth value of args.ssl.
Truthy(v) == v # "None"

\* os.path.join(root, sub) for a root without a trailing separator.
PathJoin(root, sub) == root \o "/" \o sub

\* ------------------------------------------------------------ class GTA5
\* GTA5.__init__: the object after construction.  listing is the content of
\* the manifest files under root, info the loaded info.json.
GTA5_init(root, mean, crop_size, transform, listing, info) ==
    LET image_dir == PathJoin(root, "images/")
        label_dir == PathJoin(root, "labels/")
        img_ids == [i \in 1..Len(listing.train) |-> listing.train[i].stem]
    IN  [ kind |-> "GTA5",
          root |-> root,
          crop_size |-> crop_size,
          transform |-> transform,
          ignore_index |-> IgnoreIndex,
          mean |-> mean,
          image_dir |-> image_dir,
          label_dir |-> label_dir,
          img_ids |-> img_ids,
          class_mapping |-> info,
          files |-> [i \in 1..Len(img_ids) |->
                       [ image |-> image_dir \o img_ids[i] \o ".png",
                         label |-> label_dir \o img_ids[i] \o ".png",
                         name |-> img_ids[i] ]] ]

\* GTA5.__len__
GTA5_len(self) == Len(self.files)

\* The transform block of GTA5.__getitem__.
GTA5_Transform(self, image, label, draw) ==
    IF self.transform # "None" THEN Compose(image, label, draw)
    ELSE <<image, label>>

\* GTA5_Resize with a slip: the label is not cropped.
GTA5_ResizeImageOnly(self, image, label) ==
    << CenterCrop(image, self.crop_size, <<0, 0, 0>>), label >>

\* The resize block of GTA5.__getitem__: crop(image), crop(label).
GTA5_Resize(self, image, label) ==
    << CenterCrop(image, self.crop_size, <<0, 0, 0>>),
       CenterCrop(label, self.crop_size, 0) >>

\* GTA5_RemapLabel with a slip: the codec is given 0 as its ignore value.
GTA5_RemapLabelIgnoreZero(self, label) ==
    encode_segmap(label, self.class_mapping, 0)

\* GTA5_RemapLabel with a slip: a raw id the mapping has no entry for is kept.
GTA5_RemapLabelKeepUnmapped(self, label) ==
    [r \in 1..Height(label) |-> [c \in 1..Width(label) |->
        IF label[r][c] \in DOMAIN self.class_mapping
        THEN self.class_mapping[label[r][c]]
        ELSE label[r][c]]]

\* The remap block of GTA5.__getitem__.
GTA5_RemapLabel(self, label) ==
    encode_segmap(label, self.class_mapping, self.ignore_index)

\* ------------------------------------------------------ class CityScapes
\* CityScapes.__init__: the object after construction.
CityScapes_init(root, mean, crop_size, transform, train, ssl, listing, info) ==
    LET image_dir == PathJoin(root, "images/")
        label_dir == PathJoin(root, "labels/")
        file_list == IF train = TRUE THEN listing.train ELSE listing.val
        img_ids == [i \in 1..Len(file_list) |->
                      file_list[i].city \o "_" \o file_list[i].seq
                        \o "_" \o file_list[i].frame]
    IN  [ kind |-> "CityScapes",
          root |-> root,
          mean |-> mean,
          crop_size |-> crop_size,
          transform |-> transform,
          train |-> train,
          ignore_index |-> IgnoreIndex,
          set |-> IF train THEN "train" ELSE "val",
          ssl |-> ssl,
          image_dir |-> image_dir,
          label_dir |-> label_dir,
          img_ids |-> img_ids,
          class_mapping |-> info,
          files |-> [i \in 1..Len(img_ids) |->
                       [ image |-> image_dir \o img_ids[i] \o "_leftImg8bit.png",
                         label |-> label_dir \o img_ids[i] \o "_gtFine_labelIds.png",
                         name |-> img_ids[i] ]] ]

\* CityScapes.__len__
CityScapes_len(self) == Len(self.files)

\* The transform block of CityScapes.__getitem__.
CityScapes_Transform(self, image, label, draw) ==
    IF self.transform # "None" THEN Compose(image, label, draw)
    ELSE <<image, label>>

\* The resize block of CityScapes.__getitem__: cropped only if "train" in
\* self.set.
CityScapes_Resize(self, image, label) ==
    IF self.set = "train"
    THEN << CenterCrop(image, self.crop_size, <<0, 0, 0>>),
            CenterCrop(label, self.crop_size, 0) >>
    ELSE <<image, label>>

\* CityScapes_RemapLabel with a slip: the test on self.ssl is inverted.
CityScapes_RemapLabelInverted(self, label) ==
    IF Truthy(self.ssl)
    THEN encode_segmap(label, self.class_mapping, self.ignore_index)
    ELSE label

\* The remap block of CityScapes.__getitem__: skipped when self.ssl is set.
CityScapes_RemapLabel(self, label) ==
    IF ~Truthy(self.ssl)
    THEN encode_segmap(label, self.class_mapping, self.ignore_index)
    ELSE label

\* ------------------------------------------------ both __getitem__ tails
\* InPlaceSubtract with a slip: the mean is reversed in place as well, so the
\* object's mean differs after every call.
InPlaceSubtractReversingMean(image, mean) ==
    [ image |-> [r \in 1..Height(image) |-> [c \in 1..Width(image) |->
                   [k \in 1..NumChannels |-> image[r][c][k] - mean[k]]]],
      mean |-> ReverseSeq(mean) ]

\* image -= self.mean: numpy's in-place subtraction writes its left operand
\* and leaves the right one alone.  Both operands after the statement.
InPlaceSubtract(image, mean) ==
    [ image |-> [r \in 1..Height(image) |-> [c \in 1..Width(image) |->
                   [k \in 1..NumChannels |-> image[r][c][k] - mean[k]]]],
      mean |-> mean ]

\* size = image.shape; image = image[:, :, ::-1]; image -= self.mean;
\* image = image.transpose((2, 0, 1)); return image, label, size, name
ReturnSample(image, label, mean, name) ==
    [ image |-> Transpose201(InPlaceSubtract(ReverseChannels(image), mean).image),
      label |-> label,
      size |-> Shape(image),
      name |-> name ]

\* GTA5.__getitem__(index) run by itself, for the augmentation draw given:
\* the Sample returned (the files of the entry exist).
GTA5_getitem(self, index, draw) ==
    LET file == self.files[ListIndex(self.files, index)]
        opened == OpenPair(file)
        t == GTA5_Transform(self, opened.image, opened.label, draw)
        c == GTA5_Resize(self, t[1], t[2])
    IN  ReturnSample(c[1], GTA5_RemapLabel(self, c[2]), self.mean, file.name)

\* CityScapes.__getitem__(index) run by itself, likewise.
CityScapes_getitem(self, index, draw) ==
    LET file == self.files[ListIndex(self.files, index)]
        opened == OpenPair(file)
        t == CityScapes_Transform(self, opened.image, opened.label, draw)
        c == CityScapes_Resize(self, t[1], t[2])
    IN  ReturnSample(c[1], CityScapes_RemapLabel(self, c[2]), self.mean, file.name)

\* ------------------------------------------------------------------- state
VARIABLES
    ds,       \* the Domain Sample Source under test: a GTA5 or CityScapes object
    callers,  \* who calls __getitem__: one direct caller, or the loader's workers
    todo,     \* the indices that may still be passed to __getitem__
    local,    \* per caller: where it is in __getitem__, and its local variables
    args,     \* Options().parse(): the run's configuration
    mpc,      \* where main() is
    heap,     \* the datasets and loaders main() has constructed, by reference
    mv,       \* main()'s local variables; a loader or dataset is a reference
    calls,    \* the invocations of train(), each with its arguments
    tr,       \* the training loop's state
    closed    \* whether visualizer.close() has run

dataVars == <<ds, callers, todo, local>>

mainVars == <<args, mpc, heap, mv, calls, tr, closed>>

vars == <<ds, callers, todo, local, args, mpc, heap, mv, calls, tr, closed>>

NoFile == [image |-> "", label |-> "", name |-> ""]

NoSample == [image |-> <<>>, label |-> <<>>, size |-> <<>>, name |-> ""]

\* A caller that has not called __getitem__ yet.
Idle ==
    [ pc |-> "idle", index |-> 0, draw |-> NoDraw, file |-> NoFile,
      image |-> <<>>, label |-> <<>>, raw |-> <<>>, augmented |-> FALSE,
      result |-> NoSample, err |-> "" ]

\* The objects main() and other callers can construct.
Sources ==
    { GTA5_init("gta", mean, crop, tf, RootListing(m), info) :
        mean \in Means, crop \in CropSizes, tf \in Transforms,
        m \in Manifests(GTA5Lines), info \in Label2Train }
    \cup
    { CityScapes_init("city", x[1], x[2], x[3], x[4], x[5], RootListing(x[6]), x[7]) :
        x \in Means \X CropSizes \X Transforms \X BOOLEAN \X SslValues
              \X Manifests(CityLines) \X Label2Train }

\* main() before it starts.
NoArgs ==
    [ is_train |-> FALSE, use_st |-> FALSE, ssl |-> "None", max_iters |-> 1,
      eval_freq |-> 1, ckpt_freq |-> 1 ]

NoLocals ==
    [ transform |-> "None", gta5_train_dataset |-> 0, cityscapes_val_dataset |-> 0,
      gta5_train_loader |-> 0, cityscapes_val_loader |-> 0,
      source_train_loader |-> 0, target_train_loader |-> 0,
      val_loader |-> 0, test_loader |-> 0, mean |-> <<>> ]

NoTraining ==
    [ pc |-> "NotStarted", global_step |-> 0, n_disc |-> 0, n_seg |-> 0,
      n_eval |-> 0, n_ckpt |-> 0, source |-> 0, target |-> 0, val |-> 0,
      max_iters |-> 0, eval_freq |-> 0, ckpt_freq |-> 0 ]

MainNotStarted ==
    /\ args = NoArgs
    /\ mpc = "start"
    /\ heap = <<>>
    /\ mv = NoLocals
    /\ calls = <<>>
    /\ tr = NoTraining
    /\ closed = FALSE

\* One caller indexes the source directly, with any integer.
InitDirect ==
    /\ ds \in Sources
    /\ callers = {"w1"}
    /\ todo = Indices
    /\ local = [w \in Workers |-> Idle]
    /\ MainNotStarted

\* The workers of a loader index the source: the sampler hands each index of
\* range(len(ds)) to one worker.
InitLoader ==
    /\ ds \in Sources
    /\ callers = Workers
    /\ todo = 0..(Len(ds.files) - 1)
    /\ local = [w \in Workers |-> Idle]
    /\ MainNotStarted

\* -------------------------------------------------------------- __getitem__
\* file = self.files[index]; Image.open(file['image']).convert('RGB');
\* Image.open(file['label']); name = file['name']
GetitemOpen(w, kind) ==
    /\ w \in callers
    /\ ds.kind = kind
    /\ local[w].pc = "idle"
    /\ \E index \in todo :
         LET k == ListIndex(ds.files, index)
             me == [local[w] EXCEPT !.index = index]
         IN  /\ todo' = todo \ {index}
             /\ IF k = 0
                THEN local' = [local EXCEPT ![w] =
                                 [me EXCEPT !.pc = "error", !.err = "IndexError"]]
                ELSE LET file == ds.files[k]
                         opened == OpenPair(file)
                     IN  IF ~opened.ok
                         THEN local' = [local EXCEPT ![w] =
                                          [me EXCEPT !.pc = "error",
                                                     !.file = file,
                                                     !.err = "FileNotFoundError"]]
                         ELSE local' = [local EXCEPT ![w] =
                                          [me EXCEPT !.pc = "opened",
                                                     !.file = file,
                                                     !.image = opened.image,
                                                     !.label = opened.label]]
    /\ UNCHANGED <<ds, callers>>
    /\ UNCHANGED mainVars

\* if self.transform is not None: image, label = self.transform(image, label)
GetitemTransform(w, kind) ==
    /\ w \in callers
    /\ ds.kind = kind
    /\ local[w].pc = "opened"
    /\ \E draw \in (IF ds.transform # "None" THEN Draws ELSE {NoDraw}) :
         LET out == IF kind = "GTA5"
                    THEN GTA5_Transform(ds, local[w].image, local[w].label, draw)
                    ELSE CityScapes_Transform(ds, local[w].image, local[w].label, draw)
         IN  local' = [local EXCEPT ![w] =
                         [@ EXCEPT !.pc = "transformed",
                                   !.draw = draw,
                                   !.augmented = (ds.transform # "None"),
                                   !.image = out[1],
                                   !.label = out[2]]]
    /\ UNCHANGED <<ds, callers, todo>>
    /\ UNCHANGED mainVars

\* crop = CenterCrop(self.crop_size); image = crop(image); label = crop(label)
GetitemResize(w, kind) ==
    /\ w \in callers
    /\ ds.kind = kind
    /\ local[w].pc = "transformed"
    /\ LET out == IF kind = "GTA5"
                  THEN GTA5_Resize(ds, local[w].image, local[w].label)
                  ELSE CityScapes_Resize(ds, local[w].image, local[w].label)
       IN  local' = [local EXCEPT ![w] =
                       [@ EXCEPT !.pc = "cropped",
                                 !.image = out[1],
                                 !.label = out[2]]]
    /\ UNCHANGED <<ds, callers, todo>>
    /\ UNCHANGED mainVars

\* np.asarray(..., np.float32) of both (the 8-bit values of a PNG are exact in
\* float32, so the arrays hold the pixels' values), the label remap, the
\* image's channel reversal, mean subtraction and transposition, the return.
GetitemReturn(w, kind) ==
    /\ w \in callers
    /\ ds.kind = kind
    /\ local[w].pc = "cropped"
    /\ LET raw == local[w].label
           label == IF kind = "GTA5" THEN GTA5_RemapLabel(ds, raw)
                    ELSE CityScapes_RemapLabel(ds, raw)
           sub == InPlaceSubtract(ReverseChannels(local[w].image), ds.mean)
       IN  /\ local' = [local EXCEPT ![w] =
                          [@ EXCEPT !.pc = "done",
                                    !.raw = raw,
                                    !.label = label,
                                    !.result = [ image |-> Transpose201(sub.image),
                                                 label |-> label,
                                                 size |-> Shape(local[w].image),
                                                 name |-> local[w].file.name ]]]
           /\ ds' = [ds EXCEPT !.mean = sub.mean]
    /\ UNCHANGED <<callers, todo>>
    /\ UNCHANGED mainVars

GTA5_getitem_open(w) == GetitemOpen(w, "GTA5")
GTA5_getitem_transform(w) == GetitemTransform(w, "GTA5")
GTA5_getitem_resize(w) == GetitemResize(w, "GTA5")
GTA5_getitem_return(w) == GetitemReturn(w, "GTA5")

CityScapes_getitem_open(w) == GetitemOpen(w, "CityScapes")
CityScapes_getitem_transform(w) == GetitemTransform(w, "CityScapes")
CityScapes_getitem_resize(w) == GetitemResize(w, "CityScapes")
CityScapes_getitem_return(w) == GetitemReturn(w, "CityScapes")

NextData ==
    \/ \E w \in Workers : GTA5_getitem_open(w)
    \/ \E w \in Workers : GTA5_getitem_transform(w)
    \/ \E w \in Workers : GTA5_getitem_resize(w)
    \/ \E w \in Workers : GTA5_getitem_return(w)
    \/ \E w \in Workers : CityScapes_getitem_open(w)
    \/ \E w \in Workers : CityScapes_getitem_transform(w)
    \/ \E w \in Workers : CityScapes_getitem_resize(w)
    \/ \E w \in Workers : CityScapes_getitem_return(w)

Spec == InitDirect /\ [][NextData]_vars

SpecWorkers == InitLoader /\ [][NextData]_vars

\* ------------------------------------------------------------------ main()
\* What Options().parse() can return: the fields main() and the loop read.
Args ==
    [ is_train : BOOLEAN, use_st : BOOLEAN, ssl : SslValues,
      max_iters : 1..MaxIters, eval_freq : 1..MaxFreq, ckpt_freq : 1..MaxFreq ]

\* The fields of args that the model holds fixed.
SourceDataroot == "gta"
TargetDataroot == "city"
ArgsMean == <<104, 117, 123>>
ArgsMeanPrep == <<0, 0, 0>>
ArgsCropSize == <<2, 2>>
ArgsInfo == (7 :> 0) @@ (8 :> 1) @@ (11 :> 2)
SourceListing == RootListing(SubSeq(GTA5Lines, 1, 2))
TargetListing == RootListing(SubSeq(CityLines, 1, 2))

\* torch.utils.data.DataLoader(dataset, batch_size, shuffle)
DataLoader(dataset, batch_size, shuffle) ==
    [ kind |-> "DataLoader", dataset |-> dataset, batch_size |-> batch_size,
      shuffle |-> shuffle ]

\* gta5_train_dataset = GTA5(transform=transform, ...);
\* cityscapes_val_dataset = CityScapes(..., train=False, ssl=args.ssl)
MainDatasets(a, transform) ==
    << GTA5_init(SourceDataroot, ArgsMean, ArgsCropSize, transform,
                 SourceListing, ArgsInfo),
       CityScapes_init(TargetDataroot, ArgsMean, ArgsCropSize, "None", FALSE,
                       a.ssl, TargetListing, ArgsInfo) >>

\* gta5_train_loader = DataLoader(gta5_train_dataset, ..., shuffle=True);
\* cityscapes_val_loader = DataLoader(cityscapes_val_dataset, ..., shuffle=False)
MainLoaders(m) ==
    << DataLoader(m.gta5_train_dataset, "batch_size", TRUE),
       DataLoader(m.cityscapes_val_dataset, "batch_size_val", FALSE) >>

\* MainAliases with a slip: the target loader is the source loader.
MainAliasesTargetIsSource(m) ==
    [m EXCEPT !.source_train_loader = m.gta5_train_loader,
              !.target_train_loader = m.gta5_train_loader,
              !.val_loader = m.cityscapes_val_loader,
              !.test_loader = m.cityscapes_val_loader]

\* source_train_loader = gta5_train_loader; target_train_loader =
\* cityscapes_val_loader; val_loader = ...; test_loader = ...
MainAliases(m) ==
    [m EXCEPT !.source_train_loader = m.gta5_train_loader,
              !.target_train_loader = m.cityscapes_val_loader,
              !.val_loader = m.cityscapes_val_loader,
              !.test_loader = m.cityscapes_val_loader]

\* mean = ...; if args.is_train: ... else: ...
MainBranch(a, m) ==
    LET m1 == [m EXCEPT !.mean = IF a.use_st THEN ArgsMeanPrep ELSE ArgsMean]
    IN  IF a.is_train
        THEN [m1 EXCEPT !.source_train_loader = m1.gta5_train_loader,
                        !.val_loader = m1.cityscapes_val_loader]
        ELSE [m1 EXCEPT !.test_loader = m1.cityscapes_val_loader]

\* The arguments of train(args, model, model_d, source_train_loader,
\* target_train_loader, val_loader, metrics, iter_counter, visualizer).
TrainCall(a, m) ==
    [ args |-> a, source |-> m.source_train_loader,
      target |-> m.target_train_loader, val |-> m.val_loader ]

InitMain ==
    /\ ds = GTA5_init("gta", ArgsMean, ArgsCropSize, "None", RootListing(<<>>), ArgsInfo)
    /\ callers = {}
    /\ todo = {}
    /\ local = [w \in Workers |-> Idle]
    /\ MainNotStarted

\* args = Options().parse(), the seeds, metrics, visualizer, iteration
\* counter, the two models, cudnn.
main_setup ==
    /\ mpc = "start"
    /\ args' \in Args
    /\ mpc' = "datasets"
    /\ UNCHANGED <<heap, mv, calls, tr, closed>>
    /\ UNCHANGED dataVars

main_datasets ==
    /\ mpc = "datasets"
    /\ LET made == MainDatasets(args, "Compose")
       IN  /\ heap' = heap \o made
           /\ mv' = [mv EXCEPT !.transform = "Compose",
                               !.gta5_train_dataset = Len(heap) + 1,
                               !.cityscapes_val_dataset = Len(heap) + 2]
    /\ mpc' = "loaders"
    /\ UNCHANGED <<args, calls, tr, closed>>
    /\ UNCHANGED dataVars

main_loaders ==
    /\ mpc = "loaders"
    /\ heap' = heap \o MainLoaders(mv)
    /\ mv' = [mv EXCEPT !.gta5_train_loader = Len(heap) + 1,
                        !.cityscapes_val_loader = Len(heap) + 2]
    /\ mpc' = "aliases"
    /\ UNCHANGED <<args, calls, tr, closed>>
    /\ UNCHANGED dataVars

main_aliases ==
    /\ mpc = "aliases"
    /\ mv' = MainAliases(mv)
    /\ mpc' = "branch"
    /\ UNCHANGED <<args, heap, calls, tr, closed>>
    /\ UNCHANGED dataVars

main_branch ==
    /\ mpc = "branch"
    /\ mv' = MainBranch(args, mv)
    /\ mpc' = "train"
    /\ UNCHANGED <<args, heap, calls, tr, closed>>
    /\ UNCHANGED dataVars

\* train(...) is entered: main() waits for it to return or raise.
main_train ==
    /\ mpc = "train"
    /\ calls' = Append(calls, TrainCall(args, mv))
    /\ tr' = [ NoTraining EXCEPT !.pc = "Init",
                                 !.source = TrainCall(args, mv).source,
                                 !.target = TrainCall(args, mv).target,
                                 !.val = TrainCall(args, mv).val,
                                 !.max_iters = args.max_iters,
                                 !.eval_freq = args.eval_freq,
                                 !.ckpt_freq = args.ckpt_freq ]
    /\ mpc' = "in_train"
    /\ UNCHANGED <<args, heap, mv, closed>>
    /\ UNCHANGED dataVars

\* visualizer.close(), once train() has returned.
main_close ==
    /\ mpc = "in_train"
    /\ tr.pc = "Returned"
    /\ closed' = TRUE
    /\ mpc' = "done"
    /\ UNCHANGED <<args, heap, mv, calls, tr>>
    /\ UNCHANGED dataVars

\* ------------------------------------------- the adversarial training loop
\* The Iteration Controller's schedules (should_evaluateEveryStep is
\* should_evaluate with a slip: the cadence is not consulted).
should_evaluateEveryStep(step, t) == TRUE
should_evaluate(step, t) == step % t.eval_freq = 0
should_checkpoint(step, t) == step % t.ckpt_freq = 0
is_done(step, t) == step = t.max_iters

\* What follows Bookkeep: an evaluation pass if one is due, then a checkpoint
\* if one is due, then Terminate at the last step or the next FetchBatch.
AfterBookkeep(t) ==
    IF should_evaluate(t.global_step, t) THEN "Evaluate"
    ELSE IF should_checkpoint(t.global_step, t) THEN "Checkpoint"
    ELSE IF is_done(t.global_step, t) THEN "Terminate"
    ELSE "FetchBatch"

AfterEvaluate(t) ==
    IF should_checkpoint(t.global_step, t) THEN "Checkpoint"
    ELSE IF is_done(t.global_step, t) THEN "Terminate"
    ELSE "FetchBatch"

AfterCheckpoint(t) ==
    IF is_done(t.global_step, t) THEN "Terminate" ELSE "FetchBatch"

TrainStep(from, t2) ==
    /\ mpc = "in_train"
    /\ tr.pc = from
    /\ tr' = t2
    /\ UNCHANGED <<args, mpc, heap, mv, calls, closed>>
    /\ UNCHANGED dataVars

train_Init == TrainStep("Init", [tr EXCEPT !.pc = "FetchBatch"])

train_FetchBatch == TrainStep("FetchBatch", [tr EXCEPT !.pc = "UpdateDiscriminator"])

train_UpdateDiscriminator ==
    TrainStep("UpdateDiscriminator",
              [tr EXCEPT !.pc = "UpdateSegmentation", !.n_disc = @ + 1])

train_UpdateSegmentation ==
    TrainStep("UpdateSegmentation", [tr EXCEPT !.pc = "Bookkeep", !.n_seg = @ + 1])

train_Bookkeep ==
    TrainStep("Bookkeep",
              LET t == [tr EXCEPT !.global_step = @ + 1]
              IN  [t EXCEPT !.pc = AfterBookkeep(t)])

train_Evaluate ==
    TrainStep("Evaluate", [tr EXCEPT !.pc = AfterEvaluate(tr), !.n_eval = @ + 1])

train_Checkpoint ==
    TrainStep("Checkpoint", [tr EXCEPT !.pc = AfterCheckpoint(tr), !.n_ckpt = @ + 1])

train_Terminate == TrainStep("Terminate", [tr EXCEPT !.pc = "Returned"])

\* A batch fetch or a forward/backward failure: fatal, the step is not counted
\* and main() ends with the error.
train_Fail ==
    /\ mpc = "in_train"
    /\ tr.pc \in {"FetchBatch", "UpdateDiscriminator", "UpdateSegmentation"}
    /\ tr' = [tr EXCEPT !.pc = "Failed"]
    /\ mpc' = "raised"
    /\ UNCHANGED <<args, heap, mv, calls, closed>>
    /\ UNCHANGED dataVars

\* Every step of main() and of the loop but a failure.
MainProgress ==
    \/ main_setup
    \/ main_datasets
    \/ main_loaders
    \/ main_aliases
    \/ main_branch
    \/ main_train
    \/ main_close
    \/ train_Init
    \/ train_FetchBatch
    \/ train_UpdateDiscriminator
    \/ train_UpdateSegmentation
    \/ train_Bookkeep
    \/ train_Evaluate
    \/ train_Checkpoint
    \/ train_Terminate

NextMain ==
    \/ main_setup
    \/ main_datasets
    \/ main_loaders
    \/ main_aliases
    \/ main_branch
    \/ main_train
    \/ main_close
    \/ train_Init
    \/ train_FetchBatch
    \/ train_UpdateDiscriminator
    \/ train_UpdateSegmentation
    \/ train_Bookkeep
    \/ train_Evaluate
    \/ train_Checkpoint
    \/ train_Terminate
    \/ train_Fail

SpecMain == InitMain /\ [][NextMain]_vars

\* The training thread is the only one and its steps are synchronous: a step
\* that does not fail is taken.
SpecMainFair == SpecMain /\ WF_vars(MainProgress)

\* ============================================================ properties
\* The calls of __getitem__ that have started, and those that returned.
Called(w) == local[w].pc # "idle"
Returned(w) == local[w].pc = "done"

\* The source runs the Label Codec: GTA5 always, CityScapes unless ssl is set.
CodecRuns == ds.kind = "GTA5" \/ ds.ssl = "None"

\* The source is in training mode: GTA5 serves train.txt; CityScapes says so.
TrainingMode == ds.kind = "GTA5" \/ ds.train = TRUE

\* len(source)
SourceLen == IF ds.kind = "GTA5" THEN GTA5_len(ds) ELSE CityScapes_len(ds)

\* C1: a source built from a manifest with zero entries has length 0, and
\* get(index) with any index outside 0..n-1, negative ones included, fails
\* with an error instead of wrapping around to another entry.
C1_OutOfRangeFails ==
    /\ (Len(ds.img_ids) = 0 => SourceLen = 0)
    /\ \A w \in Workers :
         (Called(w) /\ local[w].index \notin 0..(SourceLen - 1))
            => (local[w].pc = "error" /\ local[w].err = "IndexError")

\* C2: the codec maps every pixel on its own: a raw id that is a key of the
\* map becomes the mapped training id, any other raw id becomes the ignore
\* value, and nothing is raised; with {7:0, 8:1, 11:2} and ignore 255 the raw
\* values 7, 8, 11, 9 become 0, 1, 2, 255 at the same positions.
C2_EncodePixelwise ==
    \A w \in Workers :
        /\ (Returned(w) /\ CodecRuns) =>
             LET raw == local[w].raw
                 out == local[w].result.label
             IN  /\ Height(out) = Height(raw) /\ Width(out) = Width(raw)
                 /\ \A r \in 1..Height(raw) : \A c \in 1..Width(raw) :
                      /\ raw[r][c] \in DOMAIN ds.class_mapping
                           => out[r][c] = ds.class_mapping[raw[r][c]]
                      /\ raw[r][c] \notin DOMAIN ds.class_mapping
                           => out[r][c] = ds.ignore_index
                 /\ ( /\ ds.class_mapping = (7 :> 0) @@ (8 :> 1) @@ (11 :> 2)
                      /\ raw = << <<7, 8>>, <<11, 9>> >> )
                        => out = << <<0, 1>>, <<2, 255>> >>
        /\ local[w].pc = "error"
             => local[w].err \in {"IndexError", "FileNotFoundError"}

\* C2's case: the example map and matrix have been encoded.
C2_Witness ==
    \E w \in Workers :
        /\ Returned(w) /\ CodecRuns
        /\ ds.class_mapping = (7 :> 0) @@ (8 :> 1) @@ (11 :> 2)
        /\ local[w].raw = << <<7, 8>>, <<11, 9>> >>
        /\ local[w].result.label = << <<0, 1>>, <<2, 255>> >>

\* The training ids of a map: its values other than the ignore value.
TrainIds(mapping, ignore) == { mapping[k] : k \in DOMAIN mapping } \ {ignore}

\* Re-encoding an encoded label: the ignore value and the training ids are
\* fixed points, anything else goes through the map as a raw id does.
ReEncode(label, mapping, ignore) ==
    [r \in 1..Height(label) |-> [c \in 1..Width(label) |->
        IF label[r][c] = ignore THEN ignore
        ELSE IF label[r][c] \in TrainIds(mapping, ignore) THEN label[r][c]
        ELSE IF label[r][c] \in DOMAIN mapping THEN mapping[label[r][c]]
        ELSE ignore]]

\* C3: the codec is idempotent: re-encoding an encoded label with the same
\* map, the ignore value and the training ids being fixed points, gives the
\* encoded label back.
C3_EncodeIdempotent ==
    \A w \in Workers :
        (Returned(w) /\ CodecRuns) =>
            ReEncode(local[w].result.label, ds.class_mapping, ds.ignore_index)
                = local[w].result.label

\* C3's case: an encoded label holds training id 0 while 0 is also a raw key
\* of the map, and a pixel that was not a key was encoded to the ignore value.
C3_Witness ==
    \E w \in Workers :
        /\ Returned(w) /\ CodecRuns
        /\ 0 \in DOMAIN ds.class_mapping
        /\ \E r \in 1..Height(local[w].raw) : \E c \in 1..Width(local[w].raw) :
             local[w].result.label[r][c] = 0
        /\ \E r \in 1..Height(local[w].raw) : \E c \in 1..Width(local[w].raw) :
             /\ local[w].raw[r][c] \notin DOMAIN ds.class_mapping
             /\ local[w].raw[r][c] # 255
             /\ local[w].result.label[r][c] = 255

\* C5: the augmentation transform is applied only by a source in training
\* mode; a CityScapes source with train=False never applies it, whatever
\* transform it was constructed with.
C5_AugmentOnlyInTraining ==
    \A w \in Workers : local[w].augmented => TrainingMode

\* The size the entry's image file has after the draw's rescaling.
ScaledFileSize(w) ==
    LET img == Disk[local[w].file.image]
    IN  << ScaledSide(Height(img), local[w].draw.scale),
           ScaledSide(Width(img), local[w].draw.scale) >>

C7_CodecUnlessSsl ==
    \A w \in Workers :
        Returned(w) =>
            LET raw == local[w].raw
                encoded == encode_segmap(raw, ds.class_mapping, ds.ignore_index)
            IN  /\ ds.kind = "GTA5" => local[w].result.label = encoded
                /\ (ds.kind = "CityScapes" /\ ds.ssl = "None")
                      => local[w].result.label = encoded
                /\ (ds.kind = "CityScapes" /\ ds.ssl # "None")
                      => local[w].result.label = raw

\* C7's case: a CityScapes source in ssl mode returned a raw label that the
\* codec would have changed.
C7_Witness ==
    \E w \in Workers :
        /\ Returned(w)
        /\ ds.kind = "CityScapes" /\ ds.ssl # "None"
        /\ local[w].result.label = local[w].raw
        /\ encode_segmap(local[w].raw, ds.class_mapping, ds.ignore_index)
             # local[w].raw

\* The Sample a call returns when it runs alone on the source as it is now.
SampleAlone(w) ==
    IF ds.kind = "GTA5"
    THEN GTA5_getitem(ds, local[w].index, local[w].draw)
    ELSE CityScapes_getitem(ds, local[w].index, local[w].draw)

\* C8: get never modifies the files, the class_mapping, the mean or the
\* crop_size of its source (nor anything else of it), and under any
\* interleaving of the workers' calls on disjoint indices each call returns
\* the Sample a call run alone returns, for the same augmentation draw.
C8_GetIsPure ==
    /\ [][ds' = ds]_vars
    /\ [](\A w \in Workers : Returned(w) => local[w].result = SampleAlone(w))

\* C8's case: two workers have returned Samples of different entries, both
\* augmented.
C8_Witness ==
    /\ Returned("w1") /\ Returned("w2")
    /\ local["w1"].index # local["w2"].index
    /\ local["w1"].augmented /\ local["w2"].augmented
    /\ local["w1"].result.name # local["w2"].result.name

\* C9: when the image file or the label file of the indexed entry is missing
\* get fails with an error; otherwise it returns the Sample whose identifier
\* is that of the entry, made of that entry's own files.
C9_MissingFileFails ==
    \A w \in Workers :
        (Called(w) /\ ListIndex(ds.files, local[w].index) # 0) =>
            LET file == ds.files[ListIndex(ds.files, local[w].index)]
            IN  /\ (file.image \notin DOMAIN Disk \/ file.label \notin DOMAIN Disk)
                     => /\ local[w].pc = "error"
                        /\ local[w].err = "FileNotFoundError"
                        /\ local[w].result = NoSample
                /\ (file.image \in DOMAIN Disk /\ file.label \in DOMAIN Disk)
                     => /\ local[w].pc # "error"
                        /\ local[w].file = file
                        /\ local[w].pc = "opened"
                             => /\ local[w].image = ConvertRGB(Disk[file.image])
                                /\ local[w].label = Disk[file.label]
                        /\ Returned(w) => local[w].result.name = file.name

\* C9's case: a call on an entry whose image exists and whose label file is
\* missing has failed.
C9_Witness ==
    \E w \in Workers :
        /\ local[w].pc = "error"
        /\ local[w].err = "FileNotFoundError"
        /\ local[w].file.image \in DOMAIN Disk
        /\ local[w].file.label \notin DOMAIN Disk

\* C4: a run with max_iters=1 and no failure performs exactly one
\* UpdateDiscriminator and one UpdateSegmentation step, advances global_step
\* from 0 to 1, reaches Terminate when global_step equals max_iters, and does
\* not evaluate unless the evaluation cadence divides 1.
C4_SingleIteration ==
    /\ [](tr.pc = "Init" => tr.global_step = 0)
    /\ []((tr.max_iters = 1 /\ tr.pc \in {"Terminate", "Returned"})
            => /\ tr.n_disc = 1
               /\ tr.n_seg = 1
               /\ tr.global_step = 1
               /\ (tr.n_eval > 0 => 1 % tr.eval_freq = 0))
    /\ [](tr.pc = "Terminate" => tr.global_step = tr.max_iters)
    /\ [][(tr.max_iters = 1 /\ tr.pc = "Evaluate" /\ tr'.pc # "Evaluate")
            => 1 % tr.eval_freq = 0]_vars
    /\ ((tr.max_iters = 1 /\ tr.pc = "Init")
            ~> (tr.pc \in {"Terminate", "Failed"}))

\* C4's case: a run with max_iters=1 and an evaluation cadence that does not
\* divide 1 is at Terminate after one step of each network.
C4_Witness ==
    /\ tr.max_iters = 1
    /\ tr.eval_freq = 2
    /\ tr.pc = "Terminate"
    /\ tr.n_disc = 1 /\ tr.n_seg = 1 /\ tr.global_step = 1 /\ tr.n_eval = 0

\* C10: whatever args.is_train, main() invokes train exactly once, with the
\* same loader as target-domain training loader and as validation loader: the
\* one over the CityScapes val split (train=False, unshuffled, no transform);
\* the source loader is the shuffled, augmented GTA5 loader.
C10_TargetLoaderIsValLoader ==
    /\ Len(calls) <= 1
    /\ mpc \in {"in_train", "raised", "done"} => Len(calls) = 1
    /\ Len(calls) = 1 =>
         LET call == calls[1]
             target == heap[call.target]
             source == heap[call.source]
         IN  /\ call.target = call.val
             /\ call.source # call.target
             /\ target.kind = "DataLoader" /\ target.shuffle = FALSE
             /\ heap[target.dataset].kind = "CityScapes"
             /\ heap[target.dataset].train = FALSE
             /\ heap[target.dataset].set = "val"
             /\ heap[target.dataset].transform = "None"
             /\ source.kind = "DataLoader" /\ source.shuffle = TRUE
             /\ heap[source.dataset].kind = "GTA5"
             /\ heap[source.dataset].transform = "Compose"
             /\ tr.target = call.target /\ tr.val = call.val
             /\ tr.source = call.source

\* C10's case: main() has run to its end with is_train unset, and train was
\* invoked.
C10_Witness ==
    /\ mpc = "done"
    /\ args.is_train = FALSE
    /\ Len(calls) = 1
    /\ calls[1].target = calls[1].val

====
